---- MODULE Spec2Model ----
(***************************************************************************)
(* Model of the multiplex generator (gen_multiplex.py) and of the          *)
(* collision corrector (patch_script.py) of obx, and of the dispatch       *)
(* routines they emit into internal/vault/multiplex.go.                    *)
(*                                                                         *)
(* Generated text is modelled by its structure.  Identifiers that a        *)
(* regular expression of the corrector inspects are sequences of           *)
(* CamelCase words (<<"Tag","Action">> is TagAction), so that "ends with   *)
(* Args", "ends with Action" and "starts with DryRun" are computed the way *)
(* the patterns compute them.  A serialization tag is the sequence of its  *)
(* comma-separated parts.                                                  *)
(***************************************************************************)
EXTENDS Integers, Sequences, FiniteSets, TLC

VARIABLES structs, file, stdout, pc, out, gi, patches, lastRun, call

vars == <<structs, file, stdout, pc, out, gi, patches, lastRun, call>>

(***************************************************************************)
(* Bounds of the model.                                                    *)
(***************************************************************************)
\* total number of fields declared by the schemas of a catalog
MaxCatalogFields == 2
\* corrector runs after one generator run
MaxRuns == 2
\* declarations, and assignments, of a unit found on disk (CorrSpec)
MaxUnitLen == 2

(***************************************************************************)
(* Sequence helpers.                                                       *)
(***************************************************************************)
Last(s) == s[Len(s)]

Front(s) == SubSeq(s, 1, Len(s) - 1)

Range(s) == {s[i] : i \in 1..Len(s)}

Min(S) == CHOOSE x \in S : \A y \in S : x <= y

EndsWith(ident, word) == Len(ident) >= 1 /\ Last(ident) = word

StartsWith(ident, prefix) ==
  Len(ident) >= Len(prefix) /\ SubSeq(ident, 1, Len(prefix)) = prefix

(***************************************************************************)
(* The group specification: gen_multiplex.py, groups.  A Python dict keeps *)
(* insertion order, so "mappings" is the sequence of its items.            *)
(***************************************************************************)
M(a, h, s) == [action |-> a, handler |-> h, args |-> s]

groups ==
  <<
    [name |-> "ManageNotes",
     actions |-> <<"read", "write", "delete", "append", "rename", "duplicate", "move">>,
     mappings |->
      << M("read", "ReadNoteHandler", "ReadNoteArgs"),
         M("write", "WriteNoteHandler", "WriteNoteArgs"),
         M("delete", "DeleteNoteHandler", "DeleteNoteArgs"),
         M("append", "AppendNoteHandler", "AppendNoteArgs"),
         M("rename", "RenameNoteHandler", "RenameNoteArgs"),
         M("duplicate", "DuplicateNoteHandler", "DuplicateNoteArgs"),
         M("move", "MoveNoteHandler", "MoveArgs") >>],
    [name |-> "EditNote",
     actions |-> <<"edit", "replace-section", "batch-edit">>,
     mappings |->
      << M("edit", "EditNoteHandler", "EditNoteArgs"),
         M("replace-section", "ReplaceSectionHandler", "ReplaceSectionArgs"),
         M("batch-edit", "BatchEditNoteHandler", "BatchEditArgs") >>],
    [name |-> "SearchVault",
     actions |-> <<"search", "advanced", "date", "regex", "tags", "headings", "inline-fields">>,
     mappings |->
      << M("search", "SearchVaultHandler", "SearchArgs"),
         M("advanced", "SearchAdvancedHandler", "SearchAdvancedArgs"),
         M("date", "SearchDateHandler", "SearchDateArgs"),
         M("regex", "SearchRegexHandler", "SearchRegexArgs"),
         M("tags", "SearchByTagsHandler", "SearchTagsArgs"),
         M("headings", "SearchHeadingsHandler", "SearchHeadingsArgs"),
         M("inline-fields", "QueryInlineFieldsHandler", "SearchInlineFieldsArgs") >>],
    [name |-> "ManagePeriodicNotes",
     actions |-> <<"daily", "weekly", "monthly", "quarterly", "yearly", "list-daily", "list-periodic">>,
     mappings |->
      << M("daily", "DailyNoteHandler", "DailyNoteArgs"),
         M("weekly", "WeeklyNoteHandler", "WeeklyNoteArgs"),
         M("monthly", "MonthlyNoteHandler", "MonthlyNoteArgs"),
         M("quarterly", "QuarterlyNoteHandler", "QuarterlyNoteArgs"),
         M("yearly", "YearlyNoteHandler", "YearlyNoteArgs"),
         M("list-daily", "ListDailyNotesHandler", "ListPeriodicArgs"),
         M("list-periodic", "ListPeriodicNotesHandler", "ListPeriodicArgs") >>],
    [name |-> "ManageFolders",
     actions |-> <<"list", "create", "delete">>,
     mappings |->
      << M("list", "ListFoldersHandler", "ListDirsArgs"),
         M("create", "CreateFolderHandler", "CreateDirArgs"),
         M("delete", "DeleteFolderHandler", "DeleteDirArgs") >>],
    [name |-> "ManageFrontmatter",
     actions |-> <<"get", "set", "remove", "add-alias", "add-tag">>,
     mappings |->
      << M("get", "GetFrontmatterHandler", "GetFrontmatterArgs"),
         M("set", "SetFrontmatterHandler", "SetFrontmatterArgs"),
         M("remove", "RemoveFrontmatterKeyHandler", "DeleteFrontmatterArgs"),
         M("add-alias", "AddAliasHandler", "AddAliasArgs"),
         M("add-tag", "AddTagToFrontmatterHandler", "AddTagArgs") >>],
    [name |-> "ManageTasks",
     actions |-> <<"list", "toggle", "complete">>,
     mappings |->
      << M("list", "ListTasksHandler", "ListTasksArgs"),
         M("toggle", "ToggleTaskHandler", "ToggleTaskArgs"),
         M("complete", "CompleteTasksHandler", "CompleteTasksArgs") >>],
    [name |-> "AnalyzeVault",
     actions |-> <<"stats", "broken-links", "orphan-notes", "unlinked-mentions", "find-stubs", "find-outdated">>,
     mappings |->
      << M("stats", "VaultStatsHandler", "VaultStatsArgs"),
         M("broken-links", "BrokenLinksHandler", "BrokenLinksArgs"),
         M("orphan-notes", "OrphanNotesHandler", "OrphanNotesArgs"),
         M("unlinked-mentions", "UnlinkedMentionsHandler", "UnlinkedMentionsArgs"),
         M("find-stubs", "FindStubsHandler", "FindStubsArgs"),
         M("find-outdated", "FindOutdatedHandler", "FindOutdatedArgs") >>],
    [name |-> "ManageCanvas",
     actions |-> <<"list", "read", "create", "add-node", "add-edge">>,
     mappings |->
      << M("list", "ListCanvasesHandler", "ListDirsArgs"),
         M("read", "ReadCanvasHandler", "ReadNoteArgs"),
         M("create", "CreateCanvasHandler", "CreateCanvasArgs"),
         M("add-node", "AddCanvasNodeHandler", "AddNodeArgs"),
         M("add-edge", "AddCanvasEdgeHandler", "ConnectNodesArgs") >>],
    [name |-> "ManageMocs",
     actions |-> <<"discover", "generate", "update", "generate-index">>,
     mappings |->
      << M("discover", "DiscoverMOCsHandler", "DiscoverMOCsArgs"),
         M("generate", "GenerateMOCHandler", "GenerateMOCArgs"),
         M("update", "UpdateMOCHandler", "UpdateMOCArgs"),
         M("generate-index", "GenerateIndexHandler", "GenerateIndexArgs") >>],
    [name |-> "ReadBatch",
     actions |-> <<"read", "get-section", "get-headings", "get-summary">>,
     mappings |->
      << M("read", "ReadNotesHandler", "ReadNotesArgs"),
         M("get-section", "GetSectionHandler", "GetSectionArgs"),
         M("get-headings", "GetHeadingsHandler", "GetHeadingsArgs"),
         M("get-summary", "GetNoteSummaryHandler", "GetNoteSummaryArgs") >>],
    [name |-> "ManageLinks",
     actions |-> <<"backlinks", "forward-links", "suggest">>,
     mappings |->
      << M("backlinks", "BacklinksHandler", "GetBacklinksArgs"),
         M("forward-links", "ForwardLinksHandler", "ForwardLinksArgs"),
         M("suggest", "SuggestLinksHandler", "SuggestLinksArgs") >>],
    [name |-> "BulkOperations",
     actions |-> <<"tag", "move", "set-frontmatter">>,
     mappings |->
      << M("tag", "BulkTagHandler", "BulkTagArgs"),
         M("move", "BulkMoveHandler", "BulkMoveArgs"),
         M("set-frontmatter", "BulkSetFrontmatterHandler", "BulkSetFrontmatterArgs") >>],
    [name |-> "ManageTemplates",
     actions |-> <<"list", "get", "apply">>,
     mappings |->
      << M("list", "ListTemplatesHandler", "ListTemplatesArgs"),
         M("get", "GetTemplateHandler", "GetTemplateArgs"),
         M("apply", "ApplyTemplateHandler", "ApplyTemplateArgs") >>],
    [name |-> "ManageVaults",
     actions |-> <<"list", "switch">>,
     mappings |->
      << M("list", "ListVaultsHandler", "ListVaultsArgs"),
         M("switch", "SwitchVaultHandler", "SwitchVaultArgs") >>]
  >>

(***************************************************************************)
(* Identifiers and literal texts of the two scripts.                       *)
(***************************************************************************)
Action == <<"Action">>

TagAction == <<"Tag", "Action">>

DryRun == <<"Dry", "Run">>

DryRunAll == <<"Dry", "Run", "All">>

Path == <<"Path">>

AddRemoveText == "Action: 'add' (default), 'remove'"

TagAddRemoveText == "Tag Action: 'add' (default), 'remove'"

OtherText == "Preview changes without applying"

JsonImport == "    \"encoding/json\""

GeneratedLine == "Generated internal/vault/multiplex.go"

NoFile == [absent |-> TRUE]

NoCall == [none |-> TRUE]

(***************************************************************************)
(* The schema catalog: structs, as parsed from internal/vault/types.go.    *)
(* types.go is an input; a catalog declares some of the schemas the        *)
(* BulkOperations group maps, each a list of fields with distinct names.   *)
(***************************************************************************)
F(n, t, j, s) == [name |-> n, type |-> t, json |-> j, schema |-> <<s>>]

FieldUniverse ==
  { F(Action, "string", <<"action", "omitempty">>, AddRemoveText),
    F(TagAction, "string", <<"tag_action">>, OtherText),
    F(DryRun, "bool", <<"dry_run", "omitempty">>, OtherText),
    F(Path, "string", <<"path">>, OtherText),
    F(Path, "int", <<"path">>, OtherText) }

CatalogNames == {"BulkTagArgs", "BulkMoveArgs"}

DistinctNames(fs) ==
  \A i, j \in 1..Len(fs) : i # j => fs[i].name # fs[j].name

FieldLists ==
  UNION { {fs \in [1..n -> FieldUniverse] : DistinctNames(fs)} :
          n \in 0..MaxCatalogFields }

RECURSIVE TotalFields(_, _)
TotalFields(c, S) ==
  IF S = {} THEN 0
  ELSE LET s == CHOOSE x \in S : TRUE
       IN  Len(c[s]) + TotalFields(c, S \ {s})

Catalogs ==
  UNION { {c \in [S -> FieldLists] : TotalFields(c, S) <= MaxCatalogFields} :
          S \in SUBSET CatalogNames }

(***************************************************************************)
(* gen_multiplex.py: field unification.                                    *)
(***************************************************************************)
HasField(unique_fields, field_name) ==
  \E i \in 1..Len(unique_fields) : unique_fields[i].name = field_name

\* lines 205-209: insert when the name is new; the conflict branch is "pass"
AddField(unique_fields, field) ==
  IF ~HasField(unique_fields, field.name)
  THEN Append(unique_fields, field)
  ELSE unique_fields

RECURSIVE AddFields(_, _)
AddFields(unique_fields, fields) ==
  IF fields = <<>> THEN unique_fields
  ELSE AddFields(AddField(unique_fields, Head(fields)), Tail(fields))

\* lines 200-202: a schema missing from the catalog is skipped
Resolvable(args_struct_name, st) == args_struct_name \in DOMAIN st

RECURSIVE CollectFields(_, _, _)
CollectFields(unique_fields, mappings, st) ==
  IF mappings = <<>> THEN unique_fields
  ELSE LET m == Head(mappings)
       IN  IF ~Resolvable(m.args, st)
           THEN CollectFields(unique_fields, Tail(mappings), st)
           ELSE CollectFields(AddFields(unique_fields, st[m.args]),
                              Tail(mappings), st)

UniqueFields(group_data, st) == CollectFields(<<>>, group_data.mappings, st)

(***************************************************************************)
(* gen_multiplex.py: emission of the composite struct and of the handler.  *)
(***************************************************************************)
WrapperArgsName(group_data) == <<group_data.name, "Multiplex", "Args">>

RECURSIVE JoinQuoted(_)
JoinQuoted(actions) ==
  IF actions = <<>> THEN <<>>
  ELSE <<"'", Head(actions), "'">> \o
       (IF Tail(actions) = <<>> THEN <<>> ELSE <<", ">> \o JoinQuoted(Tail(actions)))

\* the description built from all but the last action
ActionSchemaDropsLast(group_data) ==
  <<"Action to perform: ">> \o JoinQuoted(Front(group_data.actions))

ActionSchema(group_data) ==
  <<"Action to perform: ">> \o JoinQuoted(group_data.actions)

DiscriminatorDecl(group_data) ==
  [name |-> Action, type |-> "string", json |-> <<"action">>,
   schema |-> ActionSchema(group_data)]

\* field["json"].replace(",omitempty", "") + ",omitempty"
OmitEmpty(json) ==
  <<Head(json)>> \o SelectSeq(Tail(json), LAMBDA p : p # "omitempty")
                 \o <<"omitempty">>

EmitField(field) ==
  IF field.name = Action
  THEN [name |-> TagAction, type |-> field.type,
        json |-> <<"tag_action", "omitempty">>, schema |-> field.schema]
  ELSE [name |-> field.name, type |-> field.type,
        json |-> OmitEmpty(field.json), schema |-> field.schema]

EmitStruct(group_data, st) ==
  LET unique_fields == UniqueFields(group_data, st)
  IN  <<DiscriminatorDecl(group_data)>> \o
      [i \in 1..Len(unique_fields) |-> EmitField(unique_fields[i])]

EmitAssigns(args_struct_name, st) ==
  IF Resolvable(args_struct_name, st)
  THEN [i \in 1..Len(st[args_struct_name]) |->
          [lhs |-> st[args_struct_name][i].name,
           rhs |-> st[args_struct_name][i].name]]
  ELSE <<>>

\* the case labelled with the schema name instead of the action
EmitCaseWrongLabel(m, st) ==
  [action |-> m.args, type |-> m.args,
   assigns |-> EmitAssigns(m.args, st), handler |-> m.handler]

EmitCase(m, st) ==
  [action |-> m.action, type |-> m.args,
   assigns |-> EmitAssigns(m.args, st), handler |-> m.handler]

\* the dispatch loop skipping a missing schema as the unification loop does
EmitCasesSkipMissing(group_data, st) ==
  LET found == SelectSeq(group_data.mappings, LAMBDA m : Resolvable(m.args, st))
  IN  [i \in 1..Len(found) |-> EmitCase(found[i], st)]

EmitCases(group_data, st) ==
  [i \in 1..Len(group_data.mappings) |-> EmitCase(group_data.mappings[i], st)]

EmitDefault == [format |-> "unknown action: %s", arg |-> Action]

GroupUnit(group_data, st) ==
  [comment |-> WrapperArgsName(group_data),
   typeName |-> WrapperArgsName(group_data),
   decls |-> EmitStruct(group_data, st),
   func |-> group_data.name,
   argsType |-> WrapperArgsName(group_data),
   switchOn |-> Action,
   cases |-> EmitCases(group_data, st),
   default |-> EmitDefault]

\* lines 182-191; a line is the sequence of its segments, <<>> a blank line
Header ==
  << <<"package vault">>, <<>>, <<"import (">>, <<"\t\"context\"">>,
     <<"\t\"fmt\"">>, <<>>,
     <<"\t\"github.com/modelcontextprotocol/go-sdk/mcp\"">>, <<")">>, <<>> >>

InitialOut == [header |-> Header, groups |-> <<>>]

\* the text one run of the generator writes
Generate(st) ==
  [header |-> Header,
   groups |-> [i \in 1..Len(groups) |-> GroupUnit(groups[i], st)]]

(***************************************************************************)
(* patch_script.py: the corrector.                                         *)
(***************************************************************************)
\* re.sub(r'type (\w+)Args struct', r'type \1MultiplexArgs struct', text)
RenameType(typeName) ==
  IF Len(typeName) >= 2 /\ EndsWith(typeName, "Args")
  THEN Front(typeName) \o <<"Multiplex", "Args">>
  ELSE typeName

\* re.sub(r'(args )(\w+)Args', r'\1\2MultiplexArgs', text): \w+ is greedy, the
\* Args it stops at is the last one of the identifier
RenameArgsType(argsType) ==
  LET at == {k \in 2..Len(argsType) : argsType[k] = "Args"}
  IN  IF at = {} THEN argsType
      ELSE LET k == CHOOSE x \in at : \A y \in at : y <= x
           IN  SubSeq(argsType, 1, k - 1) \o <<"Multiplex">>
                 \o SubSeq(argsType, k, Len(argsType))

\* bulk_search: the pattern is not anchored, it matches the end of a name
MatchesBulkSearch(decl) ==
  /\ EndsWith(decl.name, "Action")
  /\ decl.type = "string"
  /\ decl.json = <<"action", "omitempty">>
  /\ decl.schema = <<AddRemoveText>>

\* the rename that leaves the serialization key of the discriminator
RenameDeclKeepsKey(decl) ==
  IF MatchesBulkSearch(decl)
  THEN [name |-> Front(decl.name) \o TagAction, type |-> "string",
        json |-> decl.json, schema |-> <<TagAddRemoveText>>]
  ELSE decl

RenameDecl(decl) ==
  IF MatchesBulkSearch(decl)
  THEN [name |-> Front(decl.name) \o TagAction, type |-> "string",
        json |-> <<"tag_action", "omitempty">>,
        schema |-> <<TagAddRemoveText>>]
  ELSE decl

\* r'Action: args\.Action,\n(\s+DryRun)'
MatchesMapping(assigns, i) ==
  /\ EndsWith(assigns[i].lhs, "Action")
  /\ assigns[i].rhs = Action
  /\ i < Len(assigns)
  /\ StartsWith(assigns[i + 1].lhs, DryRun)

RewriteAssigns(assigns) ==
  [i \in 1..Len(assigns) |->
     IF MatchesMapping(assigns, i)
     THEN [lhs |-> assigns[i].lhs, rhs |-> TagAction]
     ELSE assigns[i]]

RewriteCase(c) ==
  [action |-> c.action, type |-> c.type,
   assigns |-> RewriteAssigns(c.assigns), handler |-> c.handler]

\* text.replace('\n    "encoding/json"\n', ''): the occurrences are taken
\* left to right without overlap; removing both newlines joins the line
\* before with the line after, which is then not looked at again
RECURSIVE StripJson(_, _)
StripJson(done, rest) ==
  IF rest = <<>> THEN done
  ELSE IF done # <<>> /\ Len(rest) >= 2 /\ Head(rest) = <<JsonImport>>
       THEN StripJson(Front(done) \o <<Last(done) \o rest[2]>>, Tail(Tail(rest)))
       ELSE StripJson(Append(done, Head(rest)), Tail(rest))

RemoveJsonImport(header) == StripJson(<<>>, header)

CorrectGroup(u) ==
  [comment |-> u.comment,
   typeName |-> RenameType(u.typeName),
   decls |-> [i \in 1..Len(u.decls) |-> RenameDecl(u.decls[i])],
   func |-> u.func,
   argsType |-> RenameArgsType(u.argsType),
   switchOn |-> u.switchOn,
   cases |-> [i \in 1..Len(u.cases) |-> RewriteCase(u.cases[i])],
   default |-> u.default]

Correct(text) ==
  [header |-> RemoveJsonImport(text.header),
   groups |-> [i \in 1..Len(text.groups) |-> CorrectGroup(text.groups[i])]]

(***************************************************************************)
(* The pipeline: runs of the generator and of the corrector.               *)
(***************************************************************************)
Init ==
  /\ structs \in Catalogs
  /\ file = NoFile
  /\ stdout = <<>>
  /\ pc = "idle"
  /\ out = InitialOut
  /\ gi = 1
  /\ patches = 0
  /\ lastRun = "none"
  /\ call = NoCall

\* gen_multiplex.py lines 146-191
GenStart ==
  /\ pc = "idle"
  /\ pc' = "gen"
  /\ out' = InitialOut
  /\ gi' = 1
  /\ stdout' = <<>>
  /\ UNCHANGED <<structs, file, patches, lastRun, call>>

\* one iteration of the loop of line 193
GenGroup ==
  /\ pc = "gen"
  /\ gi <= Len(groups)
  /\ out' = [out EXCEPT !.groups = Append(@, GroupUnit(groups[gi], structs))]
  /\ gi' = gi + 1
  /\ UNCHANGED <<structs, file, stdout, pc, patches, lastRun, call>>

\* the write that does not replace an artifact already on disk
GenWriteKeepsExisting ==
  /\ pc = "gen"
  /\ gi > Len(groups)
  /\ file' = (IF file = NoFile THEN out ELSE file)
  /\ stdout' = Append(stdout, [text |-> GeneratedLine, about |-> <<>>])
  /\ pc' = "idle"
  /\ patches' = 0
  /\ lastRun' = (IF file = NoFile THEN "gen, no file before"
                 ELSE IF patches = 0 THEN "gen over generated"
                 ELSE "gen over corrected")
  /\ UNCHANGED <<structs, out, gi, call>>

\* lines 246-249
GenWrite ==
  /\ pc = "gen"
  /\ gi > Len(groups)
  /\ file' = out
  /\ stdout' = Append(stdout, [text |-> GeneratedLine, about |-> <<>>])
  /\ pc' = "idle"
  /\ patches' = 0
  /\ lastRun' = (IF file = NoFile THEN "gen, no file before"
                 ELSE IF patches = 0 THEN "gen over generated"
                 ELSE "gen over corrected")
  /\ UNCHANGED <<structs, out, gi, call>>

\* patch_script.py, whole script; open() fails when the file is absent
RunCorrector ==
  /\ pc = "idle"
  /\ file # NoFile
  /\ patches < MaxRuns
  /\ file' = Correct(file)
  /\ patches' = patches + 1
  /\ lastRun' = "patch"
  /\ UNCHANGED <<structs, stdout, pc, out, gi, call>>

Next == GenStart \/ GenGroup \/ GenWrite \/ RunCorrector

Spec == Init /\ [][Next]_vars

\* a started script runs to its end
LiveSpec == Spec /\ WF_vars(GenGroup) /\ WF_vars(GenWrite)

(***************************************************************************)
(* Run time: the emitted <Group>MultiplexHandler, as Go executes it.  A    *)
(* composite value maps the declared field names to values; the handlers   *)
(* are opaque, a call is recorded with the value it was given.             *)
(***************************************************************************)
Values == {"add", "remove"}

UnknownAction == "frobnicate"

HandlerResult(handler, specificArgs) == [from |-> handler, given |-> specificArgs]

SpecificArgs(c, args) ==
  [n \in {c.assigns[i].lhs : i \in 1..Len(c.assigns)} |->
     args[c.assigns[Min({i \in 1..Len(c.assigns) : c.assigns[i].lhs = n})].rhs]]

MultiplexHandler(u, args) ==
  LET hits == {i \in 1..Len(u.cases) : u.cases[i].action = args[u.switchOn]}
  IN  IF hits = {}
      THEN [invoked |-> <<>>,
            result |-> [error |-> u.default.format, value |-> args[u.default.arg]]]
      ELSE LET c == u.cases[Min(hits)]
               specificArgs == [type |-> c.type, fields |-> SpecificArgs(c, args)]
           IN  [invoked |-> <<[handler |-> c.handler, args |-> specificArgs]>>,
                result |-> HandlerResult(c.handler, specificArgs)]

DeclNames(u) == {u.decls[i].name : i \in 1..Len(u.decls)}

\* the composite values a caller can send to group g
CallArgs(u, group_data) ==
  LET others == DeclNames(u) \ {Action}
  IN  { [n \in DeclNames(u) |-> IF n = Action THEN d ELSE v[n]] :
        d \in Range(group_data.actions) \cup {UnknownAction},
        v \in [others -> Values] }

\* call records the one call the model observes; the handler itself keeps
\* no state from call to call
Dispatch ==
  /\ pc = "idle"
  /\ file # NoFile
  /\ call = NoCall
  /\ \E g \in 1..Len(file.groups) :
       \E args \in CallArgs(file.groups[g], groups[g]) :
         LET r == MultiplexHandler(file.groups[g], args)
         IN  call' = [group |-> g, args |-> args,
                      invoked |-> r.invoked, result |-> r.result]
  /\ UNCHANGED <<structs, file, stdout, pc, out, gi, patches, lastRun>>

\* the artifact is built, then compiled into the server and called
DeployNext == (call = NoCall /\ Next) \/ Dispatch

DeploySpec == Init /\ [][DeployNext]_vars

(***************************************************************************)
(* The corrector as a function of any generated unit: a multiplex.go left  *)
(* on disk by any version of the generator, here one BulkOperations        *)
(* composite with its handler.                                             *)
(***************************************************************************)
D(n, j, s) == [name |-> n, type |-> "string", json |-> j, schema |-> <<s>>]

DeclUniverse ==
  { D(Action, <<"action", "omitempty">>, AddRemoveText),
    D(Action, <<"action", "omitempty">>, OtherText),
    D(TagAction, <<"tag_action", "omitempty">>, AddRemoveText),
    [name |-> DryRun, type |-> "bool", json |-> <<"dry_run", "omitempty">>,
     schema |-> <<OtherText>>] }

AssignUniverse ==
  { [lhs |-> Action, rhs |-> Action],
    [lhs |-> DryRun, rhs |-> DryRun],
    [lhs |-> DryRunAll, rhs |-> DryRunAll],
    [lhs |-> Path, rhs |-> Path] }

SeqsUpTo(S, n) == UNION { [1..k -> S] : k \in 0..n }

\* the header with k encoding/json import lines put after line p
HeaderWithJson(p, k) ==
  SubSeq(Header, 1, p) \o [i \in 1..k |-> <<JsonImport>>]
                       \o SubSeq(Header, p + 1, Len(Header))

Headers == { HeaderWithJson(p, k) : p \in {3, 6}, k \in 0..2 }

TypeNames == { <<"BulkOperations", "Args">>, <<"BulkOperations", "Multiplex", "Args">> }

BulkGroup == CHOOSE g \in Range(groups) : g.name = "BulkOperations"

DiskUnit(header, typeName, decls, assigns) ==
  [header |-> header,
   groups |-> << [comment |-> typeName,
                  typeName |-> typeName,
                  decls |-> <<DiscriminatorDecl(BulkGroup)>> \o decls,
                  func |-> BulkGroup.name,
                  argsType |-> typeName,
                  switchOn |-> Action,
                  cases |-> << [action |-> "tag", type |-> "BulkTagArgs",
                                assigns |-> assigns,
                                handler |-> "BulkTagHandler"] >>,
                  default |-> EmitDefault] >>]

DiskUnits ==
  { DiskUnit(h, t, ds, as) :
      h \in Headers, t \in TypeNames,
      ds \in SeqsUpTo(DeclUniverse, MaxUnitLen),
      as \in SeqsUpTo(AssignUniverse, MaxUnitLen) }

CorrInit ==
  /\ structs = [s \in {} |-> <<>>]
  /\ file \in DiskUnits
  /\ stdout = <<>>
  /\ pc = "idle"
  /\ out = InitialOut
  /\ gi = 1
  /\ patches = 0
  /\ lastRun = "none"
  /\ call = NoCall

CorrSpec == CorrInit /\ [][RunCorrector]_vars

(***************************************************************************)
(* Vocabulary of the properties.                                           *)
(***************************************************************************)
Written == file # NoFile

\* the artifact is what the generator wrote, no corrector has run on it
GeneratorOutput == file # NoFile /\ patches = 0

ResolvableMappings(g) ==
  {i \in 1..Len(groups[g].mappings) : groups[g].mappings[i].args \in DOMAIN structs}

SchemaFields(g) ==
  UNION { Range(structs[groups[g].mappings[i].args]) : i \in ResolvableMappings(g) }

CountNamed(u, n) == Cardinality({i \in 2..Len(u.decls) : u.decls[i].name = n})

\* the name under which the composite carries a schema field
CompositeName(n) == IF n = Action THEN TagAction ELSE n

\* C1: the composite the generator emits for a group contains every field of
\* every resolvable schema of the group; a field named Action appears
\* instead as TagAction (key tag_action), exactly once.
UnifiedContainsEveryField ==
  GeneratorOutput =>
    \A g \in 1..Len(groups) : \A f \in SchemaFields(g) :
      IF f.name = Action
      THEN /\ CountNamed(file.groups[g], TagAction) = 1
           /\ \E i \in 2..Len(file.groups[g].decls) :
                /\ file.groups[g].decls[i].name = TagAction
                /\ file.groups[g].decls[i].json = <<"tag_action", "omitempty">>
           /\ CountNamed(file.groups[g], Action) = 0
      ELSE CountNamed(file.groups[g], f.name) >= 1

\* C4: running the corrector on already corrected output changes nothing.
CorrectorIdempotent ==
  [][(patches >= 1 /\ patches' = patches + 1) => file' = file]_vars

TypeConflicts(g) ==
  {f.name : f \in {x \in SchemaFields(g) :
                     \E y \in SchemaFields(g) : y.name = x.name /\ y.type # x.type}}

\* position of the first schema field named n, over the actions in order
FirstSeen(g, n) ==
  LET at == { <<i, k>> \in (1..Len(groups[g].mappings)) \X (1..MaxCatalogFields + 1) :
                /\ i \in ResolvableMappings(g)
                /\ k <= Len(structs[groups[g].mappings[i].args])
                /\ structs[groups[g].mappings[i].args][k].name = n }
  IN  CHOOSE p \in at : \A q \in at : p[1] < q[1] \/ (p[1] = q[1] /\ p[2] <= q[2])

FirstSeenField(g, n) ==
  structs[groups[g].mappings[FirstSeen(g, n)[1]].args][FirstSeen(g, n)[2]]

\* C5: a field declared with two types in one group is reported as a
\* conflict by the generator run, the composite keeps the type seen first,
\* and the run still writes its output.
ConflictSurfaced ==
  (pc = "idle" /\ stdout # <<>>) =>
    /\ Written
    /\ \A g \in 1..Len(groups) : \A n \in TypeConflicts(g) :
         /\ \E i \in 1..Len(stdout) : stdout[i].about = n
         /\ \E i \in 2..Len(file.groups[g].decls) :
              /\ file.groups[g].decls[i].name = CompositeName(n)
              /\ file.groups[g].decls[i].type = FirstSeenField(g, n).type

\* C6: no composite declares two fields of the same name.
NoTwoDeclsShareName ==
  Written =>
    \A g \in 1..Len(file.groups) :
      \A i, j \in 1..Len(file.groups[g].decls) :
        i # j => file.groups[g].decls[i].name # file.groups[g].decls[j].name

Precedes(p, q) == p[1] < q[1] \/ (p[1] = q[1] /\ p[2] < q[2])

\* the field names of the resolvable schemas of group g, by first occurrence
FieldNamesInOrder(g) ==
  LET N == {f.name : f \in SchemaFields(g)}
      at == [n \in N |-> FirstSeen(g, n)]
  IN  [i \in 1..Cardinality(N) |->
         CHOOSE n \in N :
           Cardinality({m \in N : Precedes(at[m], at[n])}) = i - 1]

\* the values a discriminator description lists: 'a', 'b', ...
EnumeratedValues(schema) == [k \in 1..(Len(schema) \div 4) |-> schema[4 * k - 1]]

DispatchedActions(u) == [i \in 1..Len(u.cases) |-> u.cases[i].action]

\* C9: the artifact right after a generator run is the output of one fresh
\* run whatever was on disk before, and a started generator run ends with
\* the artifact written.
GeneratorStateless ==
  /\ [](GeneratorOutput => file = Generate(structs))
  /\ [](pc = "gen" => <>(pc = "idle" /\ GeneratorOutput /\ file = Generate(structs)))

\* a generator run has replaced an artifact the corrector had rewritten
RegeneratedOverCorrected ==
  pc = "idle" /\ lastRun = "gen over corrected" /\ file = Generate(structs)

\* C10: the description of the discriminator lists exactly the actions the
\* handler has a case for, both in the declared order of the group; the
\* composite declares the discriminator first, then the unified fields by
\* first occurrence over the actions in that order.
AdvertisedAreDispatched ==
  (pc = "idle" /\ Written) =>
    /\ Len(file.groups) = Len(groups)
    /\ \A g \in 1..Len(groups) :
         LET u == file.groups[g]
             names == FieldNamesInOrder(g)
         IN  /\ EnumeratedValues(u.decls[1].schema) = groups[g].actions
             /\ DispatchedActions(u) = groups[g].actions
             /\ u.decls[1].name = Action
             /\ patches = 0 =>
                  [i \in 1..Len(u.decls) - 1 |-> u.decls[i + 1].name] =
                  [i \in 1..Len(names) |-> CompositeName(names[i])]

\* a composite unifies the fields of two schemas of one group
TwoSchemasUnified ==
  /\ pc = "idle"
  /\ GeneratorOutput
  /\ \E g \in 1..Len(groups) :
       /\ Cardinality(ResolvableMappings(g)) >= 2
       /\ \A i \in ResolvableMappings(g) :
            Len(structs[groups[g].mappings[i].args]) >= 1
       /\ Len(file.groups[g].decls) >= 3

\* the mappings of the called group whose action is the discriminator sent
CalledMappings ==
  {i \in 1..Len(groups[call.group].mappings) :
     groups[call.group].mappings[i].action = call.args[Action]}

\* the value of schema s built directly from the field values sent
BuiltDirectly(s) ==
  [type |-> s,
   fields |-> [n \in {structs[s][k].name : k \in 1..Len(structs[s])} |->
                 call.args[CompositeName(n)]]]

\* C2: on the output of generator then corrector, dispatch on a declared
\* action with a resolvable schema hands the handler a value equal, field by
\* field, to the schema built from the same field values; a schema field
\* named Action is read from the composite field TagAction.
DispatchReconstructs ==
  (call # NoCall /\ patches = 1) =>
    \A i \in CalledMappings :
      groups[call.group].mappings[i].args \in DOMAIN structs =>
        /\ Len(call.invoked) = 1
        /\ call.invoked[1].args = BuiltDirectly(groups[call.group].mappings[i].args)

\* C3: a discriminator that is no declared action of the group yields the
\* "unknown action" error carrying that value and no handler call; a declared
\* action calls exactly its mapped handler and returns that handler's result.
DispatchIsATable ==
  call # NoCall =>
    IF call.args[Action] \notin Range(groups[call.group].actions)
    THEN /\ call.invoked = <<>>
         /\ call.result = [error |-> "unknown action: %s", value |-> call.args[Action]]
    ELSE /\ Cardinality(CalledMappings) = 1
         /\ Len(call.invoked) = 1
         /\ \A i \in CalledMappings :
              /\ call.invoked[1].handler = groups[call.group].mappings[i].handler
              /\ call.result = HandlerResult(groups[call.group].mappings[i].handler,
                                             call.invoked[1].args)

\* an unknown discriminator reached the handler of a group that has fields
UnknownActionRejected ==
  /\ call # NoCall
  /\ call.args[Action] = UnknownAction
  /\ call.invoked = <<>>
  /\ Len(file.groups[call.group].decls) >= 2

\* group g without the actions whose schema the catalog lacks
WithoutMissing(g) ==
  [groups[g] EXCEPT !.mappings =
     SelectSeq(groups[g].mappings, LAMBDA m : m.args \in DOMAIN structs)]

\* the groups a state is examined for: all of them before any call, the
\* called one after (a call leaves the artifact as it is)
CheckedGroups == IF call = NoCall THEN 1..Len(groups) ELSE {call.group}

\* C7: an action whose schema is absent from the catalog adds no field to
\* the composite and still has a case, which builds an empty value and calls
\* the action's handler; the rest of the group is unified and dispatched as
\* if that action were not declared.
MissingSchemaTolerated ==
  /\ (pc = "idle" /\ Written) =>
       \A g \in CheckedGroups :
         /\ Len(file.groups[g].cases) = Len(groups[g].mappings)
         /\ \A i \in 1..Len(groups[g].mappings) :
              groups[g].mappings[i].args \notin DOMAIN structs =>
                file.groups[g].cases[i] =
                  [action |-> groups[g].mappings[i].action,
                   type |-> groups[g].mappings[i].args,
                   assigns |-> <<>>,
                   handler |-> groups[g].mappings[i].handler]
  /\ (pc = "idle" /\ GeneratorOutput) =>
       \A g \in CheckedGroups :
         /\ file.groups[g].decls = EmitStruct(WithoutMissing(g), structs)
         /\ \A k \in 2..Len(file.groups[g].decls) :
              \E f \in SchemaFields(g) :
                /\ file.groups[g].decls[k].name = CompositeName(f.name)
                /\ file.groups[g].decls[k].type = f.type
         /\ SelectSeq(file.groups[g].cases, LAMBDA c : c.type \in DOMAIN structs)
              = EmitCases(WithoutMissing(g), structs)
  /\ call # NoCall =>
       \A i \in CalledMappings :
         groups[call.group].mappings[i].args \notin DOMAIN structs =>
           /\ call.invoked =
                << [handler |-> groups[call.group].mappings[i].handler,
                    args |-> [type |-> groups[call.group].mappings[i].args,
                              fields |-> <<>>]] >>
           /\ call.result = HandlerResult(groups[call.group].mappings[i].handler,
                                          call.invoked[1].args)

\* an action without schema was dispatched in a group that has other fields
MissingActionDispatched ==
  /\ call # NoCall
  /\ \E i \in CalledMappings :
       groups[call.group].mappings[i].args \notin DOMAIN structs
  /\ Len(call.invoked) = 1
  /\ Len(file.groups[call.group].decls) >= 2

ActionDecls(u) == {i \in 1..Len(u.decls) : u.decls[i].name = Action}

HasSecondAction(u) == \E i \in 2..Len(u.decls) : u.decls[i].name = Action

\* the one declaration bulk_search spells out
IsBulkTagAction(decl) ==
  decl = [name |-> Action, type |-> "string", json |-> <<"action", "omitempty">>,
          schema |-> <<AddRemoveText>>]

RenamedBulkTagAction ==
  [name |-> TagAction, type |-> "string", json |-> <<"tag_action", "omitempty">>,
   schema |-> <<TagAddRemoveText>>]

ReadsAction(a) == a = [lhs |-> Action, rhs |-> Action]

BeginsDryRun(n) == Len(n) >= 2 /\ n[1] = "Dry" /\ n[2] = "Run"

====
